---- MODULE Spec2Model ----
(***************************************************************************)
(* jenkins-to-graphite: one gather-and-send pass (gather_and_send_stats),  *)
(* the Jenkins accessor (JenkinsServer) and the Graphite sink              *)
(* (GraphiteServer) of src/jenkins-to-graphite.py.                         *)
(*                                                                         *)
(* Strings are sequences of symbols.  A symbol is either a word that is    *)
(* never split ("jenkins", "queue"), or one of the characters the code     *)
(* handles by itself: ".", " ", "\n", "-" and the decimal digits.          *)
(***************************************************************************)
EXTENDS Integers, Sequences, FiniteSets, TLC

VARIABLES
    opts,             \* the configuration handed to main(): prefix, labels, jobs
    prefix,           \* GraphiteServer.prefix
    data,             \* GraphiteServer.data: metric name -> value
    pc,               \* position of gather_and_send_stats
    li,               \* index of the label the loop of line 161 is at
    executor_info,    \* locals of gather_and_send_stats
    queue_info,
    build_info_min,
    build_info_hour,
    lastFetch,        \* the most recent get_raw_data call: url, response, result
    fetched,          \* history: the urls requested so far, in order
    varied,           \* the Jenkins server already answered off its usual answer
    lastSend,         \* the most recent GraphiteServer.send call
    sendCalls,        \* history: number of send calls
    connects,         \* history: number of connection attempts
    addCalls,         \* history: number of add_data calls of the sink's caller
    lastAdd           \* history: name -> value of the most recent add_data for it

vars == <<opts, prefix, data, pc, li, executor_info, queue_info, build_info_min,
          build_info_hour, lastFetch, fetched, varied, lastSend, sendCalls,
          connects, addCalls, lastAdd>>

(***************************************************************************)
(* Bounds of the model.                                                    *)
(***************************************************************************)
MaxCount  == 1   \* largest executor counter a record carries
MaxItems  == 1   \* longest items / events / tiedJobs / nodes list
MaxNodes  == 1   \* longest computer list
MaxJobs   == 2   \* longest jobs list
MaxAdds   == 3   \* most add_data calls a caller of the sink makes
MaxSends  == 2   \* most send calls a caller of the sink makes

SeqsUpTo(S, n) == UNION {[1..m -> S] : m \in 0..n}

(***************************************************************************)
(* Python values.                                                          *)
(***************************************************************************)
\* dict.get(key, default)
Get(rec, key, default) == IF key \in DOMAIN rec THEN rec[key] ELSE default

EmptyRecord == [k \in {} |-> 0]

\* the int 0 that line 178 passes as the default colour: equal to no string
PyZero == "<int 0>"

\* truth value of a string or a list: non-empty
Truthy(s) == Len(s) > 0

Digit == <<"0", "1", "2", "3", "4", "5", "6", "7", "8", "9">>

RECURSIVE Digits(_)
Digits(n) ==
    IF n < 10 THEN <<Digit[n + 1]>>
    ELSE Digits(n \div 10) \o <<Digit[(n % 10) + 1]>>

\* "%s" % n for an int
IntStr(n) == IF n < 0 THEN <<"-">> \o Digits(0 - n) ELSE Digits(n)

\* "%s" % t for the float time.time() returns.  Python 2 renders a float with
\* 12 significant digits and never without a fractional part; for a ten-digit
\* number of seconds that is the seconds, a point, and the hundredths with a
\* trailing zero dropped.  A float is the pair of its seconds and hundredths.
FloatStr(t) ==
    Digits(t.sec) \o <<".">> \o
        (IF t.centi % 10 = 0 THEN Digits(t.centi \div 10)
         ELSE IF t.centi < 10 THEN <<"0">> \o Digits(t.centi)
         ELSE Digits(t.centi))

\* s.rstrip(ch)
RECURSIVE rstrip(_, _)
rstrip(s, ch) ==
    IF Len(s) > 0 /\ s[Len(s)] = ch THEN rstrip(SubSeq(s, 1, Len(s) - 1), ch)
    ELSE s

(***************************************************************************)
(* JenkinsServer                                                           *)
(***************************************************************************)
\* a response body that is no literal structure, and one that is
Malformed == [wellformed |-> FALSE]
Literal(rec) == [wellformed |-> TRUE, value |-> rec]

\* requests.get either raises or returns a response with a status and a text
TransportError == [kind |-> "transport_error"]
Http(status, text) == [kind |-> "http", status |-> status, text |-> text]

\* what a call returns: a value, or an exception that propagates
Returned(v) == [raised |-> FALSE, value |-> v]
Raised == [raised |-> TRUE]

\* ast.literal_eval(text): raises on a text that is no literal structure
literal_eval(text) == IF text.wellformed THEN Returned(text.value) ELSE Raised

\* JenkinsServer.get_raw_data, given what requests.get does
get_raw_data(resp) ==
    IF resp.kind = "transport_error" THEN Raised
    ELSE IF resp.status # 200 THEN Returned(EmptyRecord)
    ELSE literal_eval(resp.text)

\* JenkinsServer.get_data: the url get_raw_data is called with
get_data_url(url) == url \o <<"/api/python">>

\* JenkinsServer.build_info_min / build_info_hour: the url of the window
build_info_min_url == <<"view/All/timeline/data?min=", "now-60s", "&max=", "now">>
build_info_hour_url == <<"view/All/timeline/data?min=", "now-3600s", "&max=", "now">>

(***************************************************************************)
(* GraphiteServer                                                          *)
(***************************************************************************)
\* GraphiteServer.__init__: the prefix the sink keeps
init_prefix(configured) == rstrip(configured, ".")

\* add_data with a fault: a name already in the batch keeps its first value
add_data_keeps_first(d, p, key, value) ==
    LET name == p \o <<".">> \o key
    IN  [k \in DOMAIN d \cup {name} |-> IF k \in DOMAIN d THEN d[k] ELSE value]

\* GraphiteServer.add_data: the batch after self.data["%s.%s" % ...] = value
add_data(d, p, key, value) ==
    LET name == p \o <<".">> \o key
    IN  [k \in DOMAIN d \cup {name} |-> IF k = name THEN value ELSE d[k]]

\* Line with a fault: the timestamp is truncated to whole seconds
Line_int_timestamp(key, val, t) ==
    key \o <<" ">> \o IntStr(val) \o <<" ">> \o Digits(t.sec) \o <<"\n">>

\* one pass of the loop of _data_as_msg
Line(key, val, t) == key \o <<" ">> \o IntStr(val) \o <<" ">> \o FloatStr(t) \o <<"\n">>

\* the loop of _data_as_msg over the keys left; a dict is walked in an order
\* that is fixed but not specified
RECURSIVE msg_of(_, _, _)
msg_of(d, keys, t) ==
    IF keys = {} THEN <<>>
    ELSE LET key == CHOOSE k \in keys : TRUE
         IN  Line(key, d[key], t) \o msg_of(d, keys \ {key}, t)

\* GraphiteServer._data_as_msg, given what time.time() returns
data_as_msg(d, t) == msg_of(d, DOMAIN d, t)

\* what the socket calls of one send do
SendOutcomes == {"socket_error", "connect_error", "sendall_error", "ok"}

\* the part of the payload a failing sendall has put on the wire
Written(msg, outcome) ==
    IF outcome = "ok" THEN msg
    ELSE IF outcome = "sendall_error" THEN SubSeq(msg, 1, Len(msg) \div 2)
    ELSE <<>>

\* send with a fault: the except clause is missing, a socket error propagates
send_propagates(d, t, outcome) ==
    LET formatted_data == data_as_msg(d, t)
    IN  [raised    |-> outcome # "ok",
         ret       |-> TRUE,
         msg       |-> formatted_data,
         attempted |-> outcome # "socket_error",
         wire      |-> Written(formatted_data, outcome),
         data      |-> d]

\* send with a fault: a failed send drops the batch
send_clears_on_failure(d, t, outcome) ==
    LET formatted_data == data_as_msg(d, t)
    IN  [raised    |-> FALSE,
         ret       |-> outcome = "ok",
         msg       |-> formatted_data,
         attempted |-> outcome # "socket_error",
         wire      |-> Written(formatted_data, outcome),
         data      |-> IF outcome = "ok" THEN d ELSE EmptyRecord]

\* GraphiteServer.send: every statement of the try block runs until one raises;
\* whatever is raised is caught and turned into False
send(d, t, outcome) ==
    LET formatted_data == data_as_msg(d, t)
    IN  [raised    |-> FALSE,
         ret       |-> outcome = "ok",
         msg       |-> formatted_data,
         attempted |-> outcome # "socket_error",
         wire      |-> Written(formatted_data, outcome),
         data      |-> d]

(***************************************************************************)
(* What the Jenkins server may answer.                                     *)
(***************************************************************************)
Counts == 0..MaxCount

\* an entry of the computer list: offline, online, or without the flag
NodeEntries == {[k \in {"offline"} |-> TRUE], [k \in {"offline"} |-> FALSE],
                EmptyRecord}

\* an entry of the jobs list: a colour, or none
Colors == {"blue", "red", "yellow", "blue_anime"}
JobEntries == {[k \in {"color"} |-> c] : c \in Colors} \cup {EmptyRecord}

\* opaque entries of the items, events, tiedJobs and nodes lists
ItemSeqs == SeqsUpTo({"x"}, MaxItems)

\* every record over a subset of the keys of one endpoint
ExecutorRecords ==
    {[k \in K |-> IF k = "totalExecutors" THEN t
                  ELSE IF k = "busyExecutors" THEN b ELSE c] :
        K \in SUBSET {"totalExecutors", "busyExecutors", "computer"},
        t \in Counts, b \in Counts, c \in SeqsUpTo(NodeEntries, MaxNodes)}

QueueRecords == {[k \in K |-> s] : K \in SUBSET {"items"}, s \in ItemSeqs}

TimelineRecords == {[k \in K |-> s] : K \in SUBSET {"events"}, s \in ItemSeqs}

LabelRecords ==
    {[k \in K |-> IF k = "totalExecutors" THEN t
                  ELSE IF k = "busyExecutors" THEN b
                  ELSE IF k = "tiedJobs" THEN j ELSE n] :
        K \in SUBSET {"totalExecutors", "busyExecutors", "tiedJobs", "nodes"},
        t \in Counts, b \in Counts, j \in ItemSeqs, n \in ItemSeqs}

ViewRecords ==
    {[k \in K |-> s] : K \in SUBSET {"jobs"}, s \in SeqsUpTo(JobEntries, MaxJobs)}

Endpoints == {"computer", "queue", "timeline", "label", "view"}

RecordsOf(endpoint) ==
    CASE endpoint = "computer" -> ExecutorRecords
      [] endpoint = "queue"    -> QueueRecords
      [] endpoint = "timeline" -> TimelineRecords
      [] endpoint = "label"    -> LabelRecords
      [] endpoint = "view"     -> ViewRecords

\* the usual answer of an endpoint
UsualRecord(endpoint) ==
    CASE endpoint = "computer" ->
            [k \in {"totalExecutors", "busyExecutors", "computer"} |->
                IF k = "totalExecutors" THEN 5
                ELSE IF k = "busyExecutors" THEN 2
                ELSE <<[o \in {"offline"} |-> FALSE], [o \in {"offline"} |-> TRUE]>>]
      [] endpoint = "queue"    -> [k \in {"items"} |-> <<"x", "x">>]
      [] endpoint = "timeline" -> [k \in {"events"} |-> <<>>]
      [] endpoint = "label"    ->
            [k \in {"totalExecutors", "busyExecutors", "tiedJobs", "nodes"} |->
                IF k = "totalExecutors" THEN 2
                ELSE IF k = "busyExecutors" THEN 1
                ELSE <<"x">>]
      [] endpoint = "view"     ->
            [k \in {"jobs"} |-> <<[c \in {"color"} |-> "blue"], [c \in {"color"} |-> "red"]>>]

Usual(endpoint) == Http(200, Literal(UsualRecord(endpoint)))

\* every answer: no answer at all, an error status, a body that does not
\* parse, and every record of the endpoint
Responses(endpoint) ==
    {TransportError, Http(500, Malformed), Http(404, Literal(EmptyRecord)),
     Http(200, Malformed)}
    \cup {Http(200, Literal(r)) : r \in RecordsOf(endpoint)}

\* the answers to one request of a pass: in one pass at most one request is
\* answered off the usual answer of its endpoint
Answers(endpoint) ==
    IF varied THEN {Usual(endpoint)} ELSE Responses(endpoint) \cup {Usual(endpoint)}

(***************************************************************************)
(* The derivations of gather_and_send_stats.                               *)
(***************************************************************************)
\* len(record.get(key, []))
LenOf(rec, key) == Len(Get(rec, key, <<>>))

\* CounterOf with a fault: a missing counter defaults to 1
CounterOf_default_one(rec, key) == Get(rec, key, 1)

\* record.get(key, 0)
CounterOf(rec, key) == Get(rec, key, 0)

\* FreeOf with a fault: a negative difference is reported as 0
FreeOf_clamped(rec) ==
    IF CounterOf(rec, "totalExecutors") < CounterOf(rec, "busyExecutors") THEN 0
    ELSE CounterOf(rec, "totalExecutors") - CounterOf(rec, "busyExecutors")

\* record.get('totalExecutors', 0) - record.get('busyExecutors', 0)
FreeOf(rec) == CounterOf(rec, "totalExecutors") - CounterOf(rec, "busyExecutors")

\* j.get('offline'): None, when the flag is missing, is false
IsOffline(j) == "offline" \in DOMAIN j /\ j["offline"]

\* HasColor with a fault: a job without a colour counts as blue
HasColor_missing_is_blue(j, color) ==
    Get(j, "color", "blue") = color

\* j.get('color', 0) == color
HasColor(j, color) == Get(j, "color", PyZero) = color

\* the names and values lines 139-158 add, in order
base_metrics(executor, queue, minute, hour) ==
    LET nodes_total   == Get(executor, "computer", <<>>)
        nodes_offline == SelectSeq(nodes_total, IsOffline)
    IN  << <<<<"queue", ".", "size">>, LenOf(queue, "items")>>,
           <<<<"builds", ".", "started_builds_last_minute">>, LenOf(minute, "events")>>,
           <<<<"builds", ".", "started_builds_last_hour">>, LenOf(hour, "events")>>,
           <<<<"executors", ".", "total">>, CounterOf(executor, "totalExecutors")>>,
           <<<<"executors", ".", "busy">>, CounterOf(executor, "busyExecutors")>>,
           <<<<"executors", ".", "free">>, FreeOf(executor)>>,
           <<<<"nodes", ".", "total">>, Len(nodes_total)>>,
           <<<<"nodes", ".", "offline">>, Len(nodes_offline)>>,
           <<<<"nodes", ".", "online">>, Len(nodes_total) - Len(nodes_offline)>> >>

\* 'labels.%s.<rest>' % label
label_name(label, rest) == <<"labels", ".">> \o label \o <<".">> \o rest

\* the names and values lines 163-173 add for one label, in order
label_metrics(label, label_info) ==
    << <<label_name(label, <<"jobs", ".", "tiedJobs">>), LenOf(label_info, "tiedJobs")>>,
       <<label_name(label, <<"nodes", ".", "total">>), LenOf(label_info, "nodes")>>,
       <<label_name(label, <<"executors", ".", "total">>),
         CounterOf(label_info, "totalExecutors")>>,
       <<label_name(label, <<"executors", ".", "busy">>),
         CounterOf(label_info, "busyExecutors")>>,
       <<label_name(label, <<"executors", ".", "free">>), FreeOf(label_info)>> >>

\* the names and values lines 177-184 add, in order
jobs_metrics(builds_info) ==
    LET jobs == Get(builds_info, "jobs", <<>>)
        IsOk(j)   == HasColor(j, "blue")
        IsFail(j) == HasColor(j, "red")
        IsWarn(j) == HasColor(j, "yellow")
    IN  << <<<<"jobs", ".", "total">>, Len(jobs)>>,
           <<<<"jobs", ".", "ok">>, Len(SelectSeq(jobs, IsOk))>>,
           <<<<"jobs", ".", "fail">>, Len(SelectSeq(jobs, IsFail))>>,
           <<<<"jobs", ".", "warn">>, Len(SelectSeq(jobs, IsWarn))>> >>

\* graphite.add_data for each pair, in order
RECURSIVE add_all(_, _, _)
add_all(d, p, pairs) ==
    IF pairs = <<>> THEN d
    ELSE add_all(add_data(d, p, pairs[1][1], pairs[1][2]), p, Tail(pairs))

\* history: the most recent value given to add_data for each name
RECURSIVE noted(_, _)
noted(h, pairs) ==
    IF pairs = <<>> THEN h
    ELSE noted([n \in DOMAIN h \cup {pairs[1][1]} |->
                    IF n = pairs[1][1] THEN pairs[1][2] ELSE h[n]],
               Tail(pairs))

\* the urls the pass asks for
computer_url == get_data_url(<<"computer">>)
queue_url == get_data_url(<<"queue">>)
label_url(label) == get_data_url(<<"label/">> \o label)
view_url(view) == get_data_url(<<"/view/">> \o view)

(***************************************************************************)
(* Configuration.                                                          *)
(***************************************************************************)
\* an option that was not given is None
None == [given |-> FALSE]
Given(s) == [given |-> TRUE, name |-> s]

\* OptTruthy with a fault: the option is tested against None only
OptTruthy_not_none(o) == o.given

\* truth value of an optional string: None and "" are false
OptTruthy(o) == o.given /\ Truthy(o.name)

LabelNames == {<<"linux">>, <<"win">>}
\* no label, one, two, and the same label twice
LabelLists == {<<>>} \cup {<<l>> : l \in LabelNames}
              \cup {<<<<"linux">>, l>> : l \in LabelNames}
JobViews == {None, Given(<<>>), Given(<<"Builds">>)}
Prefixes == {<<"jenkins">>, <<"jenkins", ".">>}
SinkPrefixes == Prefixes \cup {<<"jenkins", ".", ".">>, <<".">>}

\* what time.time() may return at the send
Times == {[sec |-> 1700000000, centi |-> 0], [sec |-> 1700000000, centi |-> 25]}

(***************************************************************************)
(* The state after main() has built the two servers.                       *)
(***************************************************************************)
Constructed(prefixes, labelLists, views) ==
    /\ opts \in [prefix : prefixes, labels : labelLists, jobs : views]
    /\ prefix = init_prefix(opts.prefix)
    /\ data = EmptyRecord
    /\ li = 1
    /\ executor_info = EmptyRecord
    /\ queue_info = EmptyRecord
    /\ build_info_min = EmptyRecord
    /\ build_info_hour = EmptyRecord
    /\ lastFetch = [called |-> FALSE]
    /\ fetched = <<>>
    /\ varied = FALSE
    /\ lastSend = [called |-> FALSE]
    /\ sendCalls = 0
    /\ connects = 0
    /\ addCalls = 0
    /\ lastAdd = EmptyRecord

Init == Constructed(Prefixes, LabelLists, JobViews) /\ pc = "computer"

locals == <<executor_info, queue_info, build_info_min, build_info_hour>>
sink == <<prefix, data, lastAdd>>
sending == <<lastSend, sendCalls, connects>>

(***************************************************************************)
(* gather_and_send_stats                                                   *)
(***************************************************************************)
\* one call of get_raw_data: the request, its answer, what the call returns
Requested(url, resp) ==
    /\ lastFetch' = [called |-> TRUE, url |-> url, resp |-> resp,
                     result |-> get_raw_data(resp)]
    /\ fetched' = Append(fetched, url)

\* where the pass goes after the base metrics and after the labels
AfterLabels == IF OptTruthy(opts.jobs) THEN "jobs" ELSE "send"
AfterBase == IF Truthy(opts.labels) THEN "labels" ELSE AfterLabels

\* line 134
FetchComputer ==
    /\ pc = "computer"
    /\ \E resp \in Answers("computer") :
        /\ Requested(computer_url, resp)
        /\ varied' = (varied \/ resp # Usual("computer"))
        /\ IF get_raw_data(resp).raised
           THEN pc' = "raised" /\ UNCHANGED executor_info
           ELSE pc' = "queue" /\ executor_info' = get_raw_data(resp).value
    /\ UNCHANGED <<opts, li, queue_info, build_info_min, build_info_hour, sink,
                   sending, addCalls>>

\* line 135
FetchQueue ==
    /\ pc = "queue"
    /\ \E resp \in Answers("queue") :
        /\ Requested(queue_url, resp)
        /\ varied' = (varied \/ resp # Usual("queue"))
        /\ IF get_raw_data(resp).raised
           THEN pc' = "raised" /\ UNCHANGED queue_info
           ELSE pc' = "build_info_min" /\ queue_info' = get_raw_data(resp).value
    /\ UNCHANGED <<opts, li, executor_info, build_info_min, build_info_hour, sink,
                   sending, addCalls>>

\* line 136
FetchBuildInfoMin ==
    /\ pc = "build_info_min"
    /\ \E resp \in Answers("timeline") :
        /\ Requested(build_info_min_url, resp)
        /\ varied' = (varied \/ resp # Usual("timeline"))
        /\ IF get_raw_data(resp).raised
           THEN pc' = "raised" /\ UNCHANGED build_info_min
           ELSE pc' = "build_info_hour" /\ build_info_min' = get_raw_data(resp).value
    /\ UNCHANGED <<opts, li, executor_info, queue_info, build_info_hour, sink,
                   sending, addCalls>>

\* line 137
FetchBuildInfoHour ==
    /\ pc = "build_info_hour"
    /\ \E resp \in Answers("timeline") :
        /\ Requested(build_info_hour_url, resp)
        /\ varied' = (varied \/ resp # Usual("timeline"))
        /\ IF get_raw_data(resp).raised
           THEN pc' = "raised" /\ UNCHANGED build_info_hour
           ELSE pc' = "base" /\ build_info_hour' = get_raw_data(resp).value
    /\ UNCHANGED <<opts, li, executor_info, queue_info, build_info_min, sink,
                   sending, addCalls>>

\* lines 139-158, and the test of line 160
AddBase ==
    /\ pc = "base"
    /\ LET pairs == base_metrics(executor_info, queue_info, build_info_min,
                                 build_info_hour)
       IN  /\ data' = add_all(data, prefix, pairs)
           /\ lastAdd' = noted(lastAdd, pairs)
    /\ pc' = AfterBase
    /\ UNCHANGED <<opts, prefix, li, locals, lastFetch, fetched, varied, sending,
                   addCalls>>

\* lines 161-173: one pass of the loop over the labels
AddLabel ==
    /\ pc = "labels"
    /\ li <= Len(opts.labels)
    /\ \E resp \in Answers("label") :
        LET label == opts.labels[li]
            got   == get_raw_data(resp)
        IN  /\ Requested(label_url(label), resp)
            /\ varied' = (varied \/ resp # Usual("label"))
            /\ IF got.raised
               THEN pc' = "raised" /\ UNCHANGED <<li, data, lastAdd>>
               ELSE /\ data' = add_all(data, prefix, label_metrics(label, got.value))
                    /\ lastAdd' = noted(lastAdd, label_metrics(label, got.value))
                    /\ li' = li + 1
                    /\ pc' = IF li < Len(opts.labels) THEN "labels" ELSE AfterLabels
    /\ UNCHANGED <<opts, prefix, locals, sending, addCalls>>

\* lines 176-184
AddJobs ==
    /\ pc = "jobs"
    /\ \E resp \in Answers("view") :
        LET got == get_raw_data(resp)
        IN  /\ Requested(view_url(opts.jobs.name), resp)
            /\ varied' = (varied \/ resp # Usual("view"))
            /\ IF got.raised
               THEN pc' = "raised" /\ UNCHANGED <<data, lastAdd>>
               ELSE /\ data' = add_all(data, prefix, jobs_metrics(got.value))
                    /\ lastAdd' = noted(lastAdd, jobs_metrics(got.value))
                    /\ pc' = "send"
    /\ UNCHANGED <<opts, prefix, li, locals, sending, addCalls>>

\* one call of GraphiteServer.send, and where its caller goes next
Sent(t, outcome, after) ==
    \E r \in {send(data, t, outcome)} :
        /\ lastSend' = [called |-> TRUE, batch |-> data, now |-> t,
                        outcome |-> outcome,
                        raised |-> r.raised, ret |-> r.ret, msg |-> r.msg,
                        wire |-> r.wire]
        /\ data' = r.data
        /\ sendCalls' = sendCalls + 1
        /\ connects' = connects + (IF r.attempted THEN 1 ELSE 0)
        /\ pc' = IF r.raised THEN "raised" ELSE after

\* line 186, and the return to main()
Send ==
    /\ pc = "send"
    /\ \E t \in Times, outcome \in SendOutcomes : Sent(t, outcome, "done")
    /\ UNCHANGED <<opts, prefix, li, locals, lastFetch, fetched, varied, addCalls,
                   lastAdd>>

Next ==
    \/ FetchComputer
    \/ FetchQueue
    \/ FetchBuildInfoMin
    \/ FetchBuildInfoHour
    \/ AddBase
    \/ AddLabel
    \/ AddJobs
    \/ Send

Spec == Init /\ [][Next]_vars

(***************************************************************************)
(* The sink on its own: a caller adds metrics and sends as it likes.       *)
(***************************************************************************)
SinkNames == {<<"queue", ".", "size">>, <<"x", ".", "y">>}
SinkValues == {-1, 1, 2, 3}

InitSink == Constructed(SinkPrefixes, {<<>>}, {None}) /\ pc = "caller"

CallAddData ==
    /\ pc = "caller"
    /\ addCalls < MaxAdds
    /\ \E key \in SinkNames, value \in SinkValues :
        /\ data' = add_data(data, prefix, key, value)
        /\ lastAdd' = noted(lastAdd, <<<<key, value>>>>)
    /\ addCalls' = addCalls + 1
    /\ UNCHANGED <<opts, prefix, pc, li, locals, lastFetch, fetched, varied, sending>>

CallSend ==
    /\ pc = "caller"
    /\ sendCalls < MaxSends
    /\ \E t \in Times, outcome \in SendOutcomes : Sent(t, outcome, "caller")
    /\ UNCHANGED <<opts, prefix, li, locals, lastFetch, fetched, varied, addCalls,
                   lastAdd>>

NextSink == CallAddData \/ CallSend

SinkSpec == InitSink /\ [][NextSink]_vars

(***************************************************************************)
(* Properties.                                                             *)
(***************************************************************************)
\* the fully qualified name of a metric under the configured prefix with its
\* trailing dots removed
Stripped == rstrip(opts.prefix, ".")
K(name) == Stripped \o <<".">> \o name

Range(seq) == {seq[i] : i \in 1..Len(seq)}

IsPrefix(a, b) == Len(a) <= Len(b) /\ a = SubSeq(b, 1, Len(a))

\* the lines of a payload, each with its newline
RECURSIVE SplitLines(_)
SplitLines(m) ==
    IF m = <<>> THEN <<>>
    ELSE IF \A j \in 1..Len(m) : m[j] # "\n" THEN <<m>>
    ELSE LET i == CHOOSE j \in 1..Len(m) :
                      m[j] = "\n" /\ \A k \in 1..(j - 1) : m[k] # "\n"
         IN  <<SubSeq(m, 1, i)>> \o SplitLines(SubSeq(m, i + 1, Len(m)))

\* the first field of a line
NameOf(line) ==
    IF \A j \in 1..Len(line) : line[j] # " " THEN line
    ELSE LET i == CHOOSE j \in 1..Len(line) :
                      line[j] = " " /\ \A k \in 1..(j - 1) : line[k] # " "
         IN  SubSeq(line, 1, i - 1)

\* a fetch that failed: no answer, an error status, or a body that does not parse
FetchFailed(resp) ==
    \/ resp.kind = "transport_error"
    \/ resp.status # 200
    \/ ~resp.text.wellformed

\* C1: every failed fetch - a transport error, a status other than success, a
\* body that is no literal structure - makes get_raw_data return the empty
\* record, and no fetch makes the pass end with an exception.
C1_FailedFetchReturnsEmpty ==
    (lastFetch.called /\ FetchFailed(lastFetch.resp)) =>
        /\ lastFetch.result = Returned(EmptyRecord)
        /\ pc # "raised"

\* C2: send never lets an exception out; it returns False whenever a socket
\* call failed, and True only when the connection was opened and the whole
\* rendered payload was written.
C2_SendNeverPropagates ==
    lastSend.called =>
        /\ ~lastSend.raised
        /\ pc # "raised"
        /\ lastSend.ret \in BOOLEAN
        /\ lastSend.ret <=> (lastSend.outcome = "ok")
        /\ lastSend.ret =>
              /\ lastSend.wire = lastSend.msg
              /\ connects >= 1

\* a send that failed in the middle of the write
C2_Witness ==
    /\ lastSend.called
    /\ ~lastSend.ret
    /\ lastSend.outcome = "sendall_error"
    /\ Len(lastSend.wire) > 0
    /\ Len(lastSend.wire) < Len(lastSend.msg)

\* C3: a send that returns False leaves the batch as it was.
C3_FailedSendKeepsBatch ==
    [][(sendCalls' = sendCalls + 1 /\ ~lastSend'.ret) => data' = data]_vars

\* a second send failed on a batch that holds metrics
C3_Witness ==
    /\ sendCalls = 2
    /\ ~lastSend.ret
    /\ lastSend.batch # EmptyRecord
    /\ data = lastSend.batch

\* the base metrics are in the batch
BaseAdded == K(<<"queue", ".", "size">>) \in DOMAIN data

\* the record the most recent pass of the label loop read, if it read one
LabelRead(i) ==
    /\ i \in 1..Len(opts.labels)
    /\ li = i + 1
    /\ lastFetch.called
    /\ lastFetch.url = label_url(opts.labels[i])
    /\ ~lastFetch.result.raised

\* the record of the job view, if the pass has read it
ViewRead ==
    /\ opts.jobs.given
    /\ lastFetch.called
    /\ lastFetch.url = view_url(opts.jobs.name)
    /\ ~lastFetch.result.raised

\* C4: the derivations are total over missing keys: a pass ends with an
\* exception only if a fetch or the send raised, and every counter whose key is
\* missing from the record it is read from is emitted as 0.
C4_MissingKeysAreZero ==
    /\ pc = "raised" =>
          \/ lastFetch.called /\ lastFetch.result.raised
          \/ lastSend.called /\ lastSend.raised
    /\ BaseAdded =>
          /\ "items" \notin DOMAIN queue_info => data[K(<<"queue", ".", "size">>)] = 0
          /\ "events" \notin DOMAIN build_info_min =>
                data[K(<<"builds", ".", "started_builds_last_minute">>)] = 0
          /\ "events" \notin DOMAIN build_info_hour =>
                data[K(<<"builds", ".", "started_builds_last_hour">>)] = 0
          /\ "totalExecutors" \notin DOMAIN executor_info =>
                data[K(<<"executors", ".", "total">>)] = 0
          /\ "busyExecutors" \notin DOMAIN executor_info =>
                data[K(<<"executors", ".", "busy">>)] = 0
          /\ {"totalExecutors", "busyExecutors"} \cap DOMAIN executor_info = {} =>
                data[K(<<"executors", ".", "free">>)] = 0
          /\ "computer" \notin DOMAIN executor_info =>
                /\ data[K(<<"nodes", ".", "total">>)] = 0
                /\ data[K(<<"nodes", ".", "offline">>)] = 0
                /\ data[K(<<"nodes", ".", "online">>)] = 0
          /\ ("computer" \in DOMAIN executor_info
                /\ \A i \in 1..Len(executor_info["computer"]) :
                      "offline" \notin DOMAIN executor_info["computer"][i]) =>
                data[K(<<"nodes", ".", "offline">>)] = 0
    /\ \A i \in 1..Len(opts.labels) :
          LabelRead(i) =>
              LET rec == lastFetch.result.value
                  L(rest) == K(<<"labels", ".">> \o opts.labels[i] \o <<".">> \o rest)
              IN  /\ "tiedJobs" \notin DOMAIN rec => data[L(<<"jobs", ".", "tiedJobs">>)] = 0
                  /\ "nodes" \notin DOMAIN rec => data[L(<<"nodes", ".", "total">>)] = 0
                  /\ "totalExecutors" \notin DOMAIN rec =>
                        data[L(<<"executors", ".", "total">>)] = 0
                  /\ "busyExecutors" \notin DOMAIN rec =>
                        data[L(<<"executors", ".", "busy">>)] = 0
                  /\ {"totalExecutors", "busyExecutors"} \cap DOMAIN rec = {} =>
                        data[L(<<"executors", ".", "free">>)] = 0
    /\ ViewRead =>
          LET rec == lastFetch.result.value
          IN  /\ "jobs" \notin DOMAIN rec =>
                    /\ data[K(<<"jobs", ".", "total">>)] = 0
                    /\ data[K(<<"jobs", ".", "ok">>)] = 0
                    /\ data[K(<<"jobs", ".", "fail">>)] = 0
                    /\ data[K(<<"jobs", ".", "warn">>)] = 0
              /\ ("jobs" \in DOMAIN rec
                    /\ \A i \in 1..Len(rec["jobs"]) : "color" \notin DOMAIN rec["jobs"][i]) =>
                    /\ data[K(<<"jobs", ".", "ok">>)] = 0
                    /\ data[K(<<"jobs", ".", "fail">>)] = 0
                    /\ data[K(<<"jobs", ".", "warn">>)] = 0

\* a pass that ended normally on a computer record without totalExecutors
\* and without computer
C4_Witness ==
    /\ pc = "done"
    /\ DOMAIN executor_info = {"busyExecutors"}
    /\ executor_info["busyExecutors"] = 1
    /\ data[K(<<"executors", ".", "total">>)] = 0
    /\ data[K(<<"nodes", ".", "total">>)] = 0

\* the names a pass writes under a configuration
BaseNames ==
    {<<"queue", ".", "size">>,
     <<"builds", ".", "started_builds_last_minute">>,
     <<"builds", ".", "started_builds_last_hour">>,
     <<"executors", ".", "total">>, <<"executors", ".", "busy">>,
     <<"executors", ".", "free">>,
     <<"nodes", ".", "total">>, <<"nodes", ".", "offline">>,
     <<"nodes", ".", "online">>}

LabelRests ==
    {<<"jobs", ".", "tiedJobs">>, <<"nodes", ".", "total">>,
     <<"executors", ".", "total">>, <<"executors", ".", "busy">>,
     <<"executors", ".", "free">>}

JobNames ==
    {<<"jobs", ".", "total">>, <<"jobs", ".", "ok">>, <<"jobs", ".", "fail">>,
     <<"jobs", ".", "warn">>}

JobViewConfigured == opts.jobs.given /\ opts.jobs.name # <<>>

ExpectedNames ==
    {K(n) : n \in BaseNames}
    \cup {K(<<"labels", ".">> \o l \o <<".">> \o rest) :
            l \in Range(opts.labels), rest \in LabelRests}
    \cup (IF JobViewConfigured THEN {K(n) : n \in JobNames} ELSE {})

C6_JobPartition ==
    ViewRead =>
        LET jobs  == Get(lastFetch.result.value, "jobs", <<>>)
            Is(c) == {i \in 1..Len(jobs) :
                         "color" \in DOMAIN jobs[i] /\ jobs[i]["color"] = c}
            total == data[K(<<"jobs", ".", "total">>)]
            ok    == data[K(<<"jobs", ".", "ok">>)]
            fail  == data[K(<<"jobs", ".", "fail">>)]
            warn  == data[K(<<"jobs", ".", "warn">>)]
        IN  /\ total = Len(jobs)
            /\ ok = Cardinality(Is("blue"))
            /\ fail = Cardinality(Is("red"))
            /\ warn = Cardinality(Is("yellow"))
            /\ ok + fail + warn <= total
            /\ (ok + fail + warn = total) <=>
                  (Is("blue") \cup Is("red") \cup Is("yellow") = 1..Len(jobs))

\* the view holds a blue job and a job without a colour
C6_Witness ==
    /\ ViewRead
    /\ pc = "done"
    /\ "jobs" \in DOMAIN lastFetch.result.value
    /\ lastFetch.result.value["jobs"] = <<[k \in {"color"} |-> "blue"], EmptyRecord>>
    /\ data[K(<<"jobs", ".", "total">>)] = 2
    /\ data[K(<<"jobs", ".", "ok">>)] = 1

\* C7 as stated: every name of the batch is the configured prefix, a dot and an
\* appended name, one entry per name, with the most recent value.
C7_KeysUnderConfiguredPrefix ==
    /\ DOMAIN data = {opts.prefix \o <<".">> \o n : n \in DOMAIN lastAdd}
    /\ \A n \in DOMAIN lastAdd : data[opts.prefix \o <<".">> \o n] = lastAdd[n]

\* C7: every name of the batch is the configured prefix without its trailing
\* dots, a dot and an appended name; there is one entry per appended name and
\* its value is the value of the most recent add_data for that name.
C7_LastWriteWins ==
    /\ DOMAIN data = {K(n) : n \in DOMAIN lastAdd}
    /\ Cardinality(DOMAIN data) = Cardinality(DOMAIN lastAdd)
    /\ \A n \in DOMAIN lastAdd : data[K(n)] = lastAdd[n]

\* x.y was added twice under the prefix "jenkins." and holds 2
C7_Witness ==
    /\ pc = "caller"
    /\ opts.prefix = <<"jenkins", ".">>
    /\ addCalls = 2
    /\ DOMAIN data = {<<"jenkins", ".", "x", ".", "y">>}
    /\ data[<<"jenkins", ".", "x", ".", "y">>] = 2

\* the batch and the time of the example: queue.size = 3 under the prefix
\* jenkins, sent at 1700000000
ExampleSent ==
    /\ lastSend.called
    /\ prefix = <<"jenkins">>
    /\ <<"jenkins", ".", "queue", ".", "size">> \in DOMAIN lastSend.batch
    /\ lastSend.batch[<<"jenkins", ".", "queue", ".", "size">>] = 3
    /\ lastSend.now = [sec |-> 1700000000, centi |-> 0]

\* C8 as stated: the example renders as "jenkins.queue.size 3 1700000000\n".
C8_ExampleLine ==
    ExampleSent =>
        <<"jenkins", ".", "queue", ".", "size", " ", "3", " ",
          "1", "7", "0", "0", "0", "0", "0", "0", "0", "0", "\n">>
            \in Range(SplitLines(lastSend.msg))

\* C8: the payload has one line per entry of the batch, each the name, the
\* value and the time of the send, separated by blanks and ended by a newline;
\* the time is the same on every line and is the float of time.time() as Python
\* prints it, with a fractional part: the example renders as
\* "jenkins.queue.size 3 1700000000.0\n".
C8_OneLinePerEntry ==
    lastSend.called =>
        LET lines == SplitLines(lastSend.msg)
            stamp == FloatStr(lastSend.now)
        IN  /\ Len(lines) = Cardinality(DOMAIN lastSend.batch)
            /\ Range(lines) =
                  {k \o <<" ">> \o IntStr(lastSend.batch[k]) \o <<" ">> \o stamp
                     \o <<"\n">> : k \in DOMAIN lastSend.batch}
            /\ ExampleSent =>
                  <<"jenkins", ".", "queue", ".", "size", " ", "3", " ",
                    "1", "7", "0", "0", "0", "0", "0", "0", "0", "0", ".", "0",
                    "\n">> \in Range(lines)
            /\ (<<"jenkins", ".", "x", ".", "y">> \in DOMAIN lastSend.batch
                  /\ lastSend.batch[<<"jenkins", ".", "x", ".", "y">>] = -1
                  /\ lastSend.now.centi = 25) =>
                  <<"jenkins", ".", "x", ".", "y", " ", "-", "1", " ",
                    "1", "7", "0", "0", "0", "0", "0", "0", "0", "0", ".", "2", "5",
                    "\n">> \in Range(lines)

\* the example was sent together with a second metric
C8_Witness ==
    /\ ExampleSent
    /\ Cardinality(DOMAIN lastSend.batch) = 2
    /\ Len(SplitLines(lastSend.msg)) = 2

\* C9: for the global record and for every label, the free executors emitted
\* are the total emitted minus the busy emitted, negative when busy > total.
C9_FreeIsTotalMinusBusy ==
    \A scope \in {<<>>} \cup {<<"labels", ".">> \o l \o <<".">> : l \in Range(opts.labels)} :
        K(scope \o <<"executors", ".", "free">>) \in DOMAIN data =>
            data[K(scope \o <<"executors", ".", "free">>)] =
                data[K(scope \o <<"executors", ".", "total">>)]
                  - data[K(scope \o <<"executors", ".", "busy">>)]

\* a label reported more busy executors than executors
C9_Witness ==
    /\ pc = "done"
    /\ \E l \in Range(opts.labels) :
          /\ data[K(<<"labels", ".">> \o l \o <<".", "executors", ".", "total">>)] = 0
          /\ data[K(<<"labels", ".">> \o l \o <<".", "executors", ".", "busy">>)] = 1
          /\ data[K(<<"labels", ".">> \o l \o <<".", "executors", ".", "free">>)] = -1
    /\ data[K(<<"executors", ".", "free">>)] = 3

\* the requests of a pass, in order
ExpectedFetches ==
    <<computer_url, queue_url, build_info_min_url, build_info_hour_url>>
    \o [i \in 1..Len(opts.labels) |-> label_url(opts.labels[i])]
    \o (IF JobViewConfigured THEN <<view_url(opts.jobs.name)>> ELSE <<>>)

\* C10: the requests made are always the first of the expected ones, in order
\* and once each; a send is made only after all of them, and once; and every
\* pass that ends has made them all, has sent once, over at most one
\* connection, and has ended without an exception.
C10_EveryInteractionOnce ==
    /\ IsPrefix(fetched, ExpectedFetches)
    /\ sendCalls <= 1
    /\ connects <= sendCalls
    /\ sendCalls = 1 => fetched = ExpectedFetches
    /\ pc \in {"done", "raised"} =>
          /\ pc = "done"
          /\ fetched = ExpectedFetches
          /\ sendCalls = 1

====
